---- MODULE Spec2Model ----
(***************************************************************************)
(* gmail-cleaner/gmail-clean.py: a command-line run that authenticates,    *)
(* builds a Gmail search query from the filter options, lists the matching *)
(* messages once and deletes them in batches of 999.                       *)
(*                                                                         *)
(* Python's None is the empty tuple <<>>, a present value v is <<v>>.      *)
(* A str that the program inspects character by character (the location,   *)
(* for .lower()) is a sequence of one-character strings; the strings it    *)
(* only concatenates are TLA+ strings joined with \o.                      *)
(***************************************************************************)
EXTENDS Integers, Sequences, FiniteSets, TLC

VARIABLES
    pc,             \* position of the run in main / authenticate_gmail / delete_messages_by_filters
    argv,           \* the command line as given
    args,           \* the Namespace parse_args returned
    tokenFile,      \* content of <credfile>.token.json, <<>> when the file is absent
    tokenFile0,     \* the content of the token file when the process started
    credfileExists, \* os.path.exists(credfile)
    mailbox,        \* how many messages of the mailbox the query matches
    creds,          \* local creds of authenticate_gmail
    service,        \* TRUE once build("gmail", ...) returned
    confirm,        \* what input() returned, <<>> while nothing was read
    query_parts,    \* local query_parts of delete_messages_by_filters
    query,          \* local query, <<>> until joined
    messages,       \* local messages
    i,              \* loop variable of the batch loop
    calls,          \* the ids lists of the batchDelete calls issued, in order
    completed,      \* how many batchDelete calls returned successfully
    failedAt,       \* index of the batchDelete call that raised, 0 if none
    deleted,        \* ids the server has deleted, in the order it deleted them
    counts,         \* how often each external operation was called
    stdout,         \* the lines printed that a claim reads
    ending,         \* how the process ended, "" while it runs
    exitCode        \* the process exit status, <<>> while it runs

vars == <<pc, argv, args, tokenFile, tokenFile0, credfileExists, mailbox, creds,
          service, confirm, query_parts, query, messages, i, calls, completed,
          failedAt, deleted, counts, stdout, ending, exitCode>>

----------------------------------------------------------------------------
(* Bounds of the model *)

\* Spec: the listing holds 0..MaxSmallList messages
MaxSmallList == 2
\* SpecBatch: the listing holds up to MaxBatches full batches, give or take one message
MaxBatches == 2

----------------------------------------------------------------------------
(* Values *)

None == <<>>
Some(v) == <<v>>

\* Python truthiness of an Optional[int]: None and 0 are falsy
TruthyInt(o) == o # None /\ o[1] # 0

\* Python truthiness of an Optional[str]: None and "" are falsy
TruthyStr(o) == o # None /\ o[1] # ""

Min(a, b) == IF a <= b THEN a ELSE b

Digits == <<"0", "1", "2", "3", "4", "5", "6", "7", "8", "9">>

\* str(n) of an int, as an f-string renders {year} and {year + 1}
RECURSIVE IntStr(_)
IntStr(n) ==
    IF n < 0 THEN "-" \o IntStr(-n)
    ELSE IF n < 10 THEN Digits[n + 1]
    ELSE IntStr(n \div 10) \o Digits[(n % 10) + 1]

\* %m and %d of strftime: two digits, zero padded
Pad2(n) == IF n < 10 THEN "0" \o IntStr(n) ELSE IntStr(n)

UpperCase == <<"A", "B", "C", "D", "E", "F", "G", "H", "I", "J", "K", "L", "M",
               "N", "O", "P", "Q", "R", "S", "T", "U", "V", "W", "X", "Y", "Z">>
LowerCase == <<"a", "b", "c", "d", "e", "f", "g", "h", "i", "j", "k", "l", "m",
               "n", "o", "p", "q", "r", "s", "t", "u", "v", "w", "x", "y", "z">>

\* variant: the comparison without .lower()
LowerCharIdentity(c) == c

\* str.lower() on one character
LowerChar(c) ==
    IF \E k \in 1..26 : UpperCase[k] = c
    THEN LowerCase[CHOOSE k \in 1..26 : UpperCase[k] = c]
    ELSE c

\* str.lower()
Lower(s) == [k \in 1..Len(s) |-> LowerChar(s[k])]

\* the str a sequence of characters stands for
RECURSIVE Str(_)
Str(s) == IF s = <<>> THEN "" ELSE Head(s) \o Str(Tail(s))

\* sep.join(parts)
RECURSIVE Join(_, _)
Join(sep, parts) ==
    IF parts = <<>> THEN ""
    ELSE IF Len(parts) = 1 THEN parts[1]
    ELSE parts[1] \o sep \o Join(sep, Tail(parts))

----------------------------------------------------------------------------
(* datetime.date *)

MINYEAR == 1
MAXYEAR == 9999

IsLeap(y) == (y % 4 = 0) /\ ((y % 100 # 0) \/ (y % 400 = 0))

DaysInMonth(y, m) ==
    IF m = 2 THEN (IF IsLeap(y) THEN 29 ELSE 28)
    ELSE IF m \in {4, 6, 9, 11} THEN 30
    ELSE 31

\* datetime.date(y, m, d) raises ValueError outside this range
DateOk(y, m, d) ==
    /\ MINYEAR <= y /\ y <= MAXYEAR
    /\ 1 <= m /\ m <= 12
    /\ 1 <= d /\ d <= DaysInMonth(y, m)

Date(y, m, d) == [year |-> y, month |-> m, day |-> d]

\* date - datetime.timedelta(days=1)
MinusOneDay(dt) ==
    IF dt.day > 1 THEN Date(dt.year, dt.month, dt.day - 1)
    ELSE IF dt.month > 1
         THEN Date(dt.year, dt.month - 1, DaysInMonth(dt.year, dt.month - 1))
         ELSE Date(dt.year - 1, 12, 31)

\* date + datetime.timedelta(days=1)
PlusOneDay(dt) ==
    IF dt.day < DaysInMonth(dt.year, dt.month)
    THEN Date(dt.year, dt.month, dt.day + 1)
    ELSE IF dt.month < 12 THEN Date(dt.year, dt.month + 1, 1)
         ELSE Date(dt.year + 1, 1, 1)

\* date.strftime("%Y/%m/%d"), for the four-digit years the model formats
Strftime(dt) == IntStr(dt.year) \o "/" \o Pad2(dt.month) \o "/" \o Pad2(dt.day)

----------------------------------------------------------------------------
(* delete_messages_by_filters: the query *)

\* start_date = datetime.date(year, month, 1)
StartDate(y, m) == Date(y, m, 1)

\* end_date: the last day of the month, December taking the next year's 1 January
EndDate(y, m) ==
    IF m = 12 THEN MinusOneDay(Date(y + 1, 1, 1))
    ELSE MinusOneDay(Date(y, m + 1, 1))

\* start_str
StartStr(y, m) == Strftime(StartDate(y, m))

\* variant: end_str without the added day
EndStrInclusive(y, m) == Strftime(EndDate(y, m))

\* end_str = (end_date + timedelta(days=1)).strftime(...)
EndStr(y, m) == Strftime(PlusOneDay(EndDate(y, m)))

\* the datetime.date constructors of the year-and-month branch raise ValueError
RaisesValueError(year, month) ==
    /\ TruthyInt(year) /\ TruthyInt(month)
    /\ \/ ~DateOk(year[1], month[1], 1)
       \/ IF month[1] = 12 THEN ~DateOk(year[1] + 1, 1, 1)
          ELSE ~DateOk(year[1], month[1] + 1, 1)

\* what the time filter appends to query_parts
TimeClauses(year, month) ==
    IF TruthyInt(year) /\ TruthyInt(month)
    THEN << "after:" \o StartStr(year[1], month[1]),
            "before:" \o EndStr(year[1], month[1]) >>
    ELSE IF TruthyInt(year)
    THEN << "after:" \o IntStr(year[1]) \o "/01/01",
            "before:" \o IntStr(year[1] + 1) \o "/01/01" >>
    ELSE << >>

\* what the location filter appends
LocationClause(location) ==
    IF Str(Lower(location)) = "inbox" THEN "in:inbox"
    ELSE "label:" \o Str(location)

\* what the sender filter appends
SenderClauses(sender) ==
    IF TruthyStr(sender) THEN << "from:" \o sender[1] >> ELSE << >>

QueryParts(year, month, location, sender) ==
    TimeClauses(year, month) \o << LocationClause(location) >> \o SenderClauses(sender)

----------------------------------------------------------------------------
(* delete_messages_by_filters: listing and batches *)

maxResults == 10000
batch_size == 999

\* results.get("messages", []) of the list call, newest message first
ListResponse(n) == [k \in 1..Min(n, maxResults) |-> [id |-> n - k + 1]]

\* variant: a slice one element short
BatchShort(msgs, k) == SubSeq(msgs, k + 1, Min(k + batch_size - 1, Len(msgs)))

\* messages[i : i + batch_size]
Batch(msgs, k) == SubSeq(msgs, k + 1, Min(k + batch_size, Len(msgs)))

\* [msg["id"] for msg in batch]
Ids(batch) == [k \in 1..Len(batch) |-> batch[k].id]

----------------------------------------------------------------------------
(* google.oauth2.credentials.Credentials *)

Credential(tok, exp, rt) == [token |-> tok, expired |-> exp, refresh_token |-> rt]

\* creds.valid
Valid(c) == c.token /\ ~c.expired

\* variant: the validity of the loaded credential is not looked at
MustObtainAlways(c) == TRUE

\* not creds or not creds.valid
MustObtain(c) == c = None \/ ~Valid(c[1])

\* creds and creds.expired and creds.refresh_token
Refreshable(c) == c # None /\ c[1].expired /\ c[1].refresh_token

----------------------------------------------------------------------------
(* How the process can end *)

\* parser.error(...), and parse_args on a month outside range(1, 13): argparse exits with status 2
ParserError ==
    [ending |-> "usage", exit |-> 2, line |-> "error: --month requires --year to be specified"]

ChoiceError ==
    [ending |-> "usage", exit |-> 2, line |-> "error: argument -m/--month: invalid choice"]

\* variant: sys.exit(0) after the message
CredentialsNotFoundSilent ==
    [ending |-> "nocreds", exit |-> 0, line |-> "Error: credentials file not found"]

\* print(...); sys.exit(1)
CredentialsNotFound ==
    [ending |-> "nocreds", exit |-> 1, line |-> "Error: credentials file not found"]

\* print("Operation cancelled."); return
Declined == [ending |-> "declined", exit |-> 0, line |-> "Operation cancelled."]

\* print("No messages found ..."); return
NoMessages == [ending |-> "empty", exit |-> 0, line |-> "No messages found"]

\* print("Successfully deleted ...") and main returns
Success == [ending |-> "success", exit |-> 0, line |-> "Successfully deleted"]

\* variant: no except KeyboardInterrupt around main()
KeyboardInterruptUnhandled ==
    [ending |-> "interrupt", exit |-> 1, line |-> ""]

\* except KeyboardInterrupt: print(...); sys.exit(0)
KeyboardInterruptHandler ==
    [ending |-> "interrupt", exit |-> 0, line |-> "Operation cancelled by user."]

\* an exception nobody catches: traceback on stderr, exit status 1
Uncaught(what) == [ending |-> what, exit |-> 1, line |-> ""]

Terminate(o) ==
    /\ pc' = "done"
    /\ ending' = o.ending
    /\ exitCode' = Some(o.exit)
    /\ stdout' = IF o.line = "" THEN stdout ELSE Append(stdout, o.line)

Bump(field) == counts' = [counts EXCEPT ![field] = @ + 1]

----------------------------------------------------------------------------
(* Inputs *)

Years == {None, Some(0), Some(-1), Some(1900), Some(2000), Some(2023), Some(2024),
          Some(9999), Some(10000)}

\* -m as typed; argparse accepts range(1, 13)
Months == {None} \cup {Some(m) : m \in 0..13}

Locations == { <<"i", "n", "b", "o", "x">>,
               <<"I", "N", "B", "O", "X">>,
               <<"I", "n", "B", "o", "x">>,
               <<"P", "r", "o", "m", "o", "t", "i", "o", "n", "s">> }

Senders == {None, Some(""), Some("newsletter@example.com")}

ConfirmInputs == {"DELETE", "delete", "", " DELETE "}

TokenFiles == { None,
                Some(Credential(TRUE, FALSE, TRUE)),
                Some(Credential(TRUE, FALSE, FALSE)),
                Some(Credential(TRUE, TRUE, TRUE)),
                Some(Credential(TRUE, TRUE, FALSE)),
                Some(Credential(FALSE, FALSE, TRUE)) }

Namespace(y, m, l, s, f) ==
    [year |-> y, month |-> m, location |-> l, sender |-> s, force |-> f]

ArgvAll ==
    { Namespace(y, m, l, s, f) :
        y \in Years, m \in Months, l \in Locations, s \in Senders, f \in BOOLEAN }

ArgvFew ==
    { Namespace(y, m, <<"i", "n", "b", "o", "x">>, None, f) :
        y \in {None, Some(2024)}, m \in {None, Some(2), Some(13)}, f \in BOOLEAN }
    \cup { Namespace(Some(10000), Some(1), <<"i", "n", "b", "o", "x">>, None, TRUE) }

SmallLists == 0..MaxSmallList

BatchLists ==
    { n \in { k * batch_size + d : k \in 0..MaxBatches, d \in {-1, 0, 1} } : n >= 0 }

----------------------------------------------------------------------------
(* The state after the interpreter started the script *)

InitWith(argvs, sizes) ==
    /\ pc = "parse"
    /\ argv \in argvs
    /\ args = Namespace(None, None, <<>>, None, FALSE)
    /\ tokenFile \in TokenFiles
    /\ tokenFile0 = tokenFile
    /\ credfileExists \in BOOLEAN
    /\ mailbox \in sizes
    /\ creds = None
    /\ service = FALSE
    /\ confirm = None
    /\ query_parts = <<>>
    /\ query = None
    /\ messages = <<>>
    /\ i = 0
    /\ calls = <<>>
    /\ completed = 0
    /\ failedAt = 0
    /\ deleted = <<>>
    /\ counts = [tokenReads |-> 0, tokenWrites |-> 0, refreshes |-> 0,
                 consentFlows |-> 0, inputReads |-> 0, listCalls |-> 0,
                 executorCalls |-> 0]
    /\ stdout = <<>>
    /\ ending = ""
    /\ exitCode = None

Init == InitWith(ArgvAll, SmallLists)

InitBatch == InitWith(ArgvFew, BatchLists)

envVars == <<argv, tokenFile0, credfileExists, mailbox>>
authVars == <<tokenFile, creds, service>>
execVars == <<query_parts, query, messages, i, calls, completed, failedAt, deleted>>

----------------------------------------------------------------------------
(* main *)

\* args = parser.parse_args()
ParseArgs ==
    /\ pc = "parse"
    /\ IF argv.month # None /\ argv.month[1] \notin 1..12
       THEN /\ Terminate(ChoiceError)
            /\ UNCHANGED args
       ELSE /\ args' = argv
            /\ pc' = "validate"
            /\ UNCHANGED <<stdout, ending, exitCode>>
    /\ UNCHANGED <<envVars, authVars, confirm, execVars, counts>>

\* variant: no month-requires-year validation
MonthWithoutYearIgnored(a) == FALSE

\* args.month and not args.year
MonthWithoutYear(a) == TruthyInt(a.month) /\ ~TruthyInt(a.year)

\* if args.month and not args.year: parser.error(...)
Validate ==
    /\ pc = "validate"
    /\ IF MonthWithoutYear(args)
       THEN Terminate(ParserError)
       ELSE /\ pc' = "auth_load"
            /\ UNCHANGED <<stdout, ending, exitCode>>
    /\ UNCHANGED <<envVars, args, authVars, confirm, execVars, counts>>

----------------------------------------------------------------------------
(* authenticate_gmail *)

\* where the run goes when creds holds c after the load
AfterLoad(c) ==
    IF MustObtain(c)
    THEN (IF Refreshable(c) THEN "auth_refresh" ELSE "auth_check")
    ELSE "auth_build"

\* if os.path.exists(token_path): creds = Credentials.from_authorized_user_file(...)
LoadToken ==
    /\ pc = "auth_load"
    /\ IF tokenFile # None
       THEN /\ creds' = tokenFile
            /\ Bump("tokenReads")
       ELSE UNCHANGED <<creds, counts>>
    /\ pc' = AfterLoad(creds')
    /\ UNCHANGED <<envVars, args, tokenFile, service, confirm, execVars,
                   stdout, ending, exitCode>>

\* creds.refresh(Request()) returns
RefreshOk ==
    /\ pc = "auth_refresh"
    /\ creds' = Some(Credential(TRUE, FALSE, TRUE))
    /\ Bump("refreshes")
    /\ pc' = "auth_write"
    /\ UNCHANGED <<envVars, args, tokenFile, service, confirm, execVars,
                   stdout, ending, exitCode>>

\* creds.refresh(Request()) raises
RefreshRaises ==
    /\ pc = "auth_refresh"
    /\ Bump("refreshes")
    /\ Terminate(Uncaught("autherror"))
    /\ UNCHANGED <<envVars, args, authVars, confirm, execVars>>

\* if not os.path.exists(credfile): print(...); sys.exit(1)
CheckCredfile ==
    /\ pc = "auth_check"
    /\ IF ~credfileExists
       THEN Terminate(CredentialsNotFound)
       ELSE /\ pc' = "auth_flow"
            /\ UNCHANGED <<stdout, ending, exitCode>>
    /\ UNCHANGED <<envVars, args, authVars, confirm, execVars, counts>>

\* flow.run_local_server(port=0) returns a fresh credential
ConsentOk ==
    /\ pc = "auth_flow"
    /\ creds' = Some(Credential(TRUE, FALSE, TRUE))
    /\ Bump("consentFlows")
    /\ pc' = "auth_write"
    /\ UNCHANGED <<envVars, args, tokenFile, service, confirm, execVars,
                   stdout, ending, exitCode>>

\* flow.run_local_server(port=0) raises (consent denied, network failure)
ConsentRaises ==
    /\ pc = "auth_flow"
    /\ Bump("consentFlows")
    /\ Terminate(Uncaught("autherror"))
    /\ UNCHANGED <<envVars, args, authVars, confirm, execVars>>

\* with open(token_path, "w") as token: token.write(creds.to_json())
WriteToken ==
    /\ pc = "auth_write"
    /\ tokenFile' = creds
    /\ Bump("tokenWrites")
    /\ pc' = "auth_build"
    /\ UNCHANGED <<envVars, args, creds, service, confirm, execVars,
                   stdout, ending, exitCode>>

\* return build("gmail", "v1", credentials=creds)
BuildService ==
    /\ pc = "auth_build"
    /\ service' = TRUE
    /\ pc' = "warn"
    /\ UNCHANGED <<envVars, args, tokenFile, creds, confirm, execVars, counts,
                   stdout, ending, exitCode>>

----------------------------------------------------------------------------
(* main: warning and confirmation *)

\* print_warning(...) in both branches; force mode goes straight on
PrintWarning ==
    /\ pc = "warn"
    /\ IF ~args.force
       THEN /\ pc' = "confirm"
            /\ UNCHANGED stdout
       ELSE /\ pc' = "exec"
            /\ stdout' = Append(stdout, "FORCE MODE: Skipping confirmation!")
    /\ UNCHANGED <<envVars, args, authVars, confirm, execVars, counts, ending, exitCode>>

\* variant: a case-insensitive confirmation
ConfirmAcceptedAnyCase(s) == s \in {"DELETE", "delete"}

\* not (confirm != "DELETE")
ConfirmAccepted(s) == s = "DELETE"

\* confirm = input(...); if confirm != "DELETE": print("Operation cancelled."); return
Confirm ==
    /\ pc = "confirm"
    /\ \E typed \in ConfirmInputs :
        /\ confirm' = Some(typed)
        /\ Bump("inputReads")
        /\ IF ConfirmAccepted(typed)
           THEN /\ pc' = "exec"
                /\ UNCHANGED <<stdout, ending, exitCode>>
           ELSE Terminate(Declined)
    /\ UNCHANGED <<envVars, args, authVars, execVars>>

----------------------------------------------------------------------------
(* delete_messages_by_filters *)

\* lines 37-64: query_parts and query, or the ValueError of datetime.date
BuildQuery ==
    /\ pc = "exec"
    /\ Bump("executorCalls")
    /\ IF RaisesValueError(args.year, args.month)
       THEN /\ Terminate(Uncaught("valueerror"))
            /\ UNCHANGED <<query_parts, query>>
       ELSE /\ query_parts' = QueryParts(args.year, args.month, args.location, args.sender)
            /\ query' = Some(Join(" ", query_parts'))
            /\ pc' = "list"
            /\ UNCHANGED <<stdout, ending, exitCode>>
    /\ UNCHANGED <<envVars, args, authVars, confirm, messages, i, calls, completed,
                   failedAt, deleted>>

\* the list call returns; an empty result prints and returns
ListOk ==
    /\ pc = "list"
    /\ Bump("listCalls")
    /\ messages' = ListResponse(mailbox)
    /\ IF messages' = <<>>
       THEN Terminate(NoMessages)
       ELSE /\ pc' = "loop"
            /\ UNCHANGED <<stdout, ending, exitCode>>
    /\ i' = 0
    /\ UNCHANGED <<envVars, args, authVars, confirm, query_parts, query, calls,
                   completed, failedAt, deleted>>

\* the list call raises
ListRaises ==
    /\ pc = "list"
    /\ Bump("listCalls")
    /\ Terminate(Uncaught("apierror"))
    /\ UNCHANGED <<envVars, args, authVars, confirm, execVars>>

\* one iteration of the for loop up to the batchDelete request
IssueBatch ==
    /\ pc = "loop"
    /\ i < Len(messages)
    /\ calls' = Append(calls, Ids(Batch(messages, i)))
    /\ pc' = "deleting"
    /\ UNCHANGED <<envVars, args, authVars, confirm, query_parts, query, messages, i,
                   completed, failedAt, deleted, counts, stdout, ending, exitCode>>

\* batchDelete(...).execute() returns: the server deleted the ids of the call
BatchDeleteOk ==
    /\ pc = "deleting"
    /\ deleted' = deleted \o calls[Len(calls)]
    /\ completed' = completed + 1
    /\ i' = i + batch_size
    /\ pc' = "loop"
    /\ UNCHANGED <<envVars, args, authVars, confirm, query_parts, query, messages,
                   calls, failedAt, counts, stdout, ending, exitCode>>

\* variant: the failure is swallowed and the loop goes on
BatchDeleteSwallowed ==
    /\ pc = "deleting"
    /\ failedAt' = Len(calls)
    /\ i' = i + batch_size
    /\ pc' = "loop"
    /\ UNCHANGED <<envVars, args, authVars, confirm, query_parts, query, messages,
                   calls, completed, deleted, counts, stdout, ending, exitCode>>

\* batchDelete(...).execute() raises: nothing catches it
BatchDeleteRaises ==
    /\ pc = "deleting"
    /\ failedAt' = Len(calls)
    /\ Terminate(Uncaught("apierror"))
    /\ UNCHANGED <<envVars, args, authVars, confirm, query_parts, query, messages, i,
                   calls, completed, deleted, counts>>

\* the loop is exhausted: the summary line, and main returns
Summary ==
    /\ pc = "loop"
    /\ i >= Len(messages)
    /\ Terminate(Success)
    /\ UNCHANGED <<envVars, args, authVars, confirm, execVars, counts>>

----------------------------------------------------------------------------
(* __main__ *)

\* KeyboardInterrupt anywhere inside main(); a batchDelete request that was
\* in flight may or may not have been carried out by the server
Interrupt ==
    /\ pc # "done"
    /\ Terminate(KeyboardInterruptHandler)
    /\ \E applied \in BOOLEAN :
        deleted' = IF pc = "deleting" /\ applied
                   THEN deleted \o calls[Len(calls)]
                   ELSE deleted
    /\ UNCHANGED <<envVars, args, authVars, confirm, query_parts, query, messages, i,
                   calls, completed, failedAt, counts>>

Next ==
    \/ ParseArgs
    \/ Validate
    \/ LoadToken
    \/ RefreshOk
    \/ RefreshRaises
    \/ CheckCredfile
    \/ ConsentOk
    \/ ConsentRaises
    \/ WriteToken
    \/ BuildService
    \/ PrintWarning
    \/ Confirm
    \/ BuildQuery
    \/ ListOk
    \/ ListRaises
    \/ IssueBatch
    \/ BatchDeleteOk
    \/ BatchDeleteRaises
    \/ Summary
    \/ Interrupt

\* every filter and environment, short listings
Spec == Init /\ [][Next]_vars

\* a few filters, listings around the multiples of batch_size
SpecBatch == InitBatch /\ [][Next]_vars

----------------------------------------------------------------------------
(* Helpers of the properties *)

RECURSIVE Flatten(_)
Flatten(ss) == IF ss = <<>> THEN <<>> ELSE Head(ss) \o Flatten(Tail(ss))

IsPrefix(s, t) == Len(s) <= Len(t) /\ s = SubSeq(t, 1, Len(s))

Listed == [k \in 1..Len(messages) |-> messages[k].id]

CeilDiv999(n) == (n + 998) \div 999

Printed(line) == \E k \in 1..Len(stdout) : stdout[k] = line

LastPrinted(line) == stdout # <<>> /\ stdout[Len(stdout)] = line

\* the token file held a credential that is valid, or expired with a refresh token
Usable(tf) == tf # None /\ ((tf[1].token /\ ~tf[1].expired) \/ (tf[1].expired /\ tf[1].refresh_token))

MonthStr == <<"01", "02", "03", "04", "05", "06", "07", "08", "09", "10", "11", "12">>

INBOX == <<"I", "N", "B", "O", "X">>

ExpectedLocation(l) ==
    CASE l = <<"i", "n", "b", "o", "x">> -> "in:inbox"
      [] l = INBOX -> "in:inbox"
      [] l = <<"I", "n", "B", "o", "x">> -> "in:inbox"
      [] l = <<"P", "r", "o", "m", "o", "t", "i", "o", "n", "s">> -> "label:Promotions"

LocationTexts == {"in:inbox", "label:inbox", "label:INBOX", "label:InBox", "label:Promotions"}

----------------------------------------------------------------------------
(* Properties *)

\* C1: the batchDelete calls partition the listing: at most 999 ids per call, every
\* call but the last exactly 999, the calls in order are a prefix of the listing
\* while the loop runs and the whole listing, in ceil(N/999) calls, when the run
\* succeeded; an empty listing issues no call.
C1_BatchesPartitionListing ==
    /\ IsPrefix(Flatten(calls), Listed)
    /\ \A k \in 1..Len(calls) :
        /\ Len(calls[k]) >= 1 /\ Len(calls[k]) <= 999
        /\ k < Len(calls) => Len(calls[k]) = 999
    /\ Len(calls) <= CeilDiv999(Len(messages))
    /\ ending = "success" =>
        /\ Len(calls) = CeilDiv999(Len(messages))
        /\ Flatten(calls) = Listed
    /\ ending = "empty" => calls = <<>> /\ messages = <<>>
    /\ (counts.listCalls = 1 /\ messages = <<>>) => calls = <<>>

C1_Witness ==
    /\ ending = "success"
    /\ Len(messages) = 1999
    /\ Len(calls) = 3
    /\ Len(calls[3]) = 1

\* C2: without the force flag the executor runs only after the input "DELETE"; any
\* other input ends the run with no list and no batchDelete call. With the force
\* flag no input is read and the executor is invoked.
C2_ConfirmationGate ==
    /\ (counts.executorCalls > 0 \/ counts.listCalls > 0 \/ calls # <<>>
            \/ pc \in {"exec", "list", "loop", "deleting"})
        => (args.force \/ confirm = Some("DELETE"))
    /\ (~args.force /\ confirm # None /\ confirm # Some("DELETE"))
        => /\ pc = "done"
           /\ counts.executorCalls = 0
           /\ counts.listCalls = 0
           /\ calls = <<>>
    /\ args.force => (confirm = None /\ counts.inputReads = 0)
    /\ (args.force /\ service /\ pc = "done" /\ ending # "interrupt")
        => counts.executorCalls = 1

C2_Witness ==
    /\ ~args.force
    /\ confirm = Some(" DELETE ")
    /\ ending = "declined"
    /\ counts.listCalls = 0

\* C3: a month without a year is rejected before authenticate_gmail is called: no
\* token file read or write, no refresh, no consent flow, no list, no batchDelete.
C3_MonthNeedsYear ==
    (argv.month # None /\ argv.year = None) =>
        /\ pc \in {"parse", "validate", "done"}
        /\ counts.tokenReads = 0 /\ counts.tokenWrites = 0
        /\ counts.refreshes = 0 /\ counts.consentFlows = 0
        /\ counts.listCalls = 0 /\ counts.executorCalls = 0
        /\ calls = <<>> /\ deleted = <<>>
        /\ tokenFile = tokenFile0 /\ creds = None /\ ~service
        /\ (pc = "done" /\ ending # "interrupt") => ending = "usage"

C3_Witness ==
    /\ argv.month = Some(5) /\ argv.year = None
    /\ pc = "done" /\ ending = "usage"

\* C4 as stated: exit code 1 both for the missing credentials file and for a month
\* given without a year.
C4_Original ==
    /\ ending = "nocreds" => exitCode = Some(1)
    /\ (argv.month \in {Some(m) : m \in 1..12} /\ argv.year = None
            /\ pc = "done" /\ ending # "interrupt")
        => exitCode = Some(1)

\* C4 amended: exit code 1 when the credentials file is missing and no usable cached
\* credential exists; exit code 2 (argparse's parser.error) for a month without a year.
C4_ExitCodes ==
    /\ ending = "nocreds" => exitCode = Some(1)
    /\ (pc = "done" /\ ~credfileExists /\ ~Usable(tokenFile0)
            /\ ending \notin {"usage", "interrupt"})
        => (ending = "nocreds" /\ exitCode = Some(1))
    /\ (argv.month \in {Some(m) : m \in 1..12} /\ argv.year = None
            /\ pc = "done" /\ ending # "interrupt")
        => exitCode = Some(2)

C4_Witness ==
    /\ argv.month = Some(3) /\ argv.year = None
    /\ ending = "usage" /\ exitCode = Some(2)

\* C5: a declined confirmation and a KeyboardInterrupt at any stage end the process
\* with exit code 0 after their cancellation message, and once interrupted the run
\* issues no further list or batchDelete call.
C5_CancellationExitsZero ==
    /\ [](/\ ending = "declined" =>
                (pc = "done" /\ exitCode = Some(0) /\ LastPrinted("Operation cancelled."))
          /\ ending = "interrupt" =>
                (pc = "done" /\ exitCode = Some(0)
                    /\ LastPrinted("Operation cancelled by user.")))
    /\ [][ending = "interrupt" => (calls' = calls /\ counts' = counts)]_vars
    /\ [][(pc # "done" /\ pc' = "done" /\ ending' = "interrupt")
            => (calls' = calls /\ counts' = counts)]_vars

C5_Witness ==
    /\ ending = "interrupt" /\ exitCode = Some(0)
    /\ Len(calls) = 1 /\ completed = 0

\* C6: with a year and a month the query starts with after:<year>/<month>/01 and
\* before:<first day of the following month>, December rolling over to the next year.
C6_MonthBounds ==
    (query # None /\ args.year # None /\ args.month # None) =>
        LET y == args.year[1]
            m == args.month[1]
        IN  /\ Len(query_parts) >= 3
            /\ query_parts[1] = "after:" \o IntStr(y) \o "/" \o MonthStr[m] \o "/01"
            /\ query_parts[2] =
                 IF m = 12 THEN "before:" \o IntStr(y + 1) \o "/01/01"
                 ELSE "before:" \o IntStr(y) \o "/" \o MonthStr[m + 1] \o "/01"

C6_Witness ==
    /\ query # None
    /\ args.year = Some(2024) /\ args.month = Some(2)
    /\ query_parts[1] = "after:2024/02/01"
    /\ query_parts[2] = "before:2024/03/01"

\* C7 as stated: a year given without a month, whatever integer it is, puts
\* after:<year>/01/01 and before:<year+1>/01/01 in the query; the time clauses are
\* omitted only when no year was given.
C7_YearOnly ==
    (query # None /\ args.year # None /\ args.month = None) =>
        /\ Len(query_parts) >= 3
        /\ query_parts[1] = "after:" \o IntStr(args.year[1]) \o "/01/01"
        /\ query_parts[2] = "before:" \o IntStr(args.year[1] + 1) \o "/01/01"

\* C8: the query holds exactly one location clause, in:inbox when the location is
\* "inbox" in any case and label:<location> as typed otherwise, and the clauses are
\* joined by single spaces in the order time, location, sender.
C8_LocationClause ==
    query # None =>
        LET loc == ExpectedLocation(args.location)
            nS == IF args.sender \in {None, Some("")} THEN 0 ELSE 1
            nT == Len(query_parts) - 1 - nS
            tail == IF nS = 1 THEN " from:" \o args.sender[1] ELSE ""
        IN  /\ nT \in {0, 2}
            /\ query_parts[nT + 1] = loc
            /\ Cardinality({k \in 1..Len(query_parts) : query_parts[k] \in LocationTexts}) = 1
            /\ nS = 1 => query_parts[nT + 2] = "from:" \o args.sender[1]
            /\ query = Some(IF nT = 2
                            THEN query_parts[1] \o " " \o query_parts[2] \o " " \o loc \o tail
                            ELSE loc \o tail)

C8_Witness ==
    /\ args.location = INBOX
    /\ query = Some("after:2024/01/01 before:2025/01/01 in:inbox from:newsletter@example.com")

\* C9: the token file is written at most once, and exactly when the credential was
\* refreshed or obtained by the consent flow; a valid loaded credential leaves it
\* alone; with no usable credential and no credentials file the process exits 1
\* before the consent flow and before any write; the consent flow runs only when
\* the loaded credential is neither valid nor refreshable.
C9_TokenFileWrites ==
    /\ counts.tokenWrites <= 1
    /\ counts.tokenWrites = 0 => tokenFile = tokenFile0
    /\ service =>
        /\ counts.tokenWrites = 1 <=> (counts.refreshes = 1 \/ counts.consentFlows = 1)
        /\ counts.tokenWrites = 1 => tokenFile = creds
    /\ (tokenFile0 # None /\ tokenFile0[1].token /\ ~tokenFile0[1].expired) =>
        /\ counts.tokenWrites = 0
        /\ counts.refreshes = 0
        /\ counts.consentFlows = 0
    /\ counts.refreshes >= 1 =>
        (tokenFile0 # None /\ tokenFile0[1].expired /\ tokenFile0[1].refresh_token)
    /\ counts.consentFlows >= 1 => (~Usable(tokenFile0) /\ credfileExists)
    /\ ending = "nocreds" =>
        /\ exitCode = Some(1)
        /\ counts.consentFlows = 0 /\ counts.tokenWrites = 0
        /\ tokenFile = tokenFile0
        /\ ~credfileExists /\ ~Usable(tokenFile0)

C9_Witness ==
    /\ service
    /\ counts.refreshes = 1 /\ counts.tokenWrites = 1
    /\ tokenFile # tokenFile0

\* C10: batches go out one at a time in listing order, each at most once; a call is
\* issued only after all earlier ones returned; when call k raises, exactly the k-1
\* earlier batches are deleted, nothing more is issued, no summary is printed and
\* the exit status is not 0.
C10_SequentialNoRetry ==
    /\ completed <= Len(calls) /\ Len(calls) <= completed + 1
    /\ \A j, k \in 1..Len(calls) : j < k => calls[j] # calls[k]
    /\ \A k \in 1..Len(calls) : calls[k][1] = messages[(k - 1) * 999 + 1].id
    /\ failedAt > 0 =>
        /\ pc = "done"
        /\ Len(calls) = failedAt
        /\ completed = failedAt - 1
        /\ deleted = Flatten(SubSeq(calls, 1, failedAt - 1))
        /\ ~Printed("Successfully deleted")
        /\ exitCode # None /\ exitCode # Some(0)

C10_Witness ==
    /\ failedAt = 2
    /\ completed = 1
    /\ Len(deleted) = 999
    /\ exitCode = Some(1)

====
